---- MODULE Spec2Model ----
(***************************************************************************)
(* A model of probe.py (oleavr/art-internals): the tool that mines the tag *)
(* history of the ART repository, checks every interesting tag out into a  *)
(* cached worktree, compiles a sizeof/offsetof probe against it for each   *)
(* architecture and decodes the numbers from an objdump section dump.      *)
(*                                                                         *)
(* Strings the program inspects character by character (tag names, dump    *)
(* text, header source, compiler diagnostics, report values) are sequences *)
(* of one-character strings. Strings it only passes around (paths,         *)
(* architecture names) are TLA+ strings.                                   *)
(***************************************************************************)
EXTENDS Integers, Sequences, FiniteSets, TLC

VARIABLES
    \* compute_tags_affecting: the repository and one call
    repoTags,       \* the repository's tags in committer-date order
    blob,           \* blob[tag][path]: the content of path at tag
    argPaths,       \* the *paths of the call
    tagsResult,     \* what the call returned
    tagsPc,
    \* parse_objdump_section_as_uint32_array: one section and its dump
    sectionBytes,   \* the bytes of the object's .data section
    dumpText,       \* objdump -sj .data, as printed
    parsed,         \* what the parser returned, or that it raised
    dumpPc,
    \* the access-control rewrite of one header of a cached worktree
    headerOrig,     \* the header as git checked it out
    headerSource,   \* the header file of the worktree now
    rewrites,       \* the probes that have rewritten it so far
    \* get_aosp_checkout called by processes that share the cache directory
    cacheDirs,      \* the worktree directories that exist under cache/
    worktreeAdds,   \* the git worktree add commands issued, in order
    callers,        \* per calling process: where it is in get_aosp_checkout
    \* probe_offsets: the files and tools of one run, and one call
    worktreeFiles,  \* the header files of the ART worktrees under cache/
    toolchainDirs,  \* the standalone toolchains installed under cache/toolchains
    toolchainRuns,  \* get_toolchain calls so far
    cxxRuns,        \* compiler invocations so far
    objdumpRuns,    \* objdump invocations so far
    headerWrites,   \* header files written back so far
    lastCxx,        \* what the last compiler invocation returned
    stdout,         \* the lines printed so far
    probeCall,      \* the arguments of the probe_offsets call under study
    probeRet,       \* what it returned
    probePc,
    \* main: the locals of one run
    versions,       \* the AndroidVersion of every tag to probe
    mainArch,       \* the position of the outer loop in the architecture sweep
    mainVersion,    \* the position of the inner loop in versions
    result,         \* the OrderedDict: its keys in insertion order, each with its list
    probeLog,       \* what the probe_offsets calls of every finished iteration returned
    mainPc

varsTags == <<repoTags, blob, argPaths, tagsResult, tagsPc>>

varsDump == <<sectionBytes, dumpText, parsed, dumpPc>>

varsRewrite == <<headerOrig, headerSource, rewrites>>

varsCache == <<cacheDirs, worktreeAdds, callers>>

varsWorld ==
    <<worktreeFiles, toolchainDirs, toolchainRuns, cxxRuns, objdumpRuns, headerWrites,
      lastCxx, stdout>>

varsProbe == <<probeCall, probeRet, probePc>>

varsMain == <<versions, mainArch, mainVersion, result, probeLog, mainPc>>

vars == <<varsTags, varsDump, varsRewrite, varsCache, varsWorld, varsProbe, varsMain>>

\* ------------------------------------------------------------ generic helpers

Range(s) == {s[i] : i \in 1..Len(s)}

Min(S) == CHOOSE x \in S : \A y \in S : x <= y

Max(S) == CHOOSE x \in S : \A y \in S : x >= y

RECURSIVE Concat(_)
Concat(ss) == IF ss = <<>> THEN <<>> ELSE Head(ss) \o Concat(Tail(ss))

\* the sequences over S without repetition, of length at most n
DistinctSeqs(S, n) ==
    {s \in UNION {[1..k -> S] : k \in 0..n} :
        \A i, j \in 1..Len(s) : i # j => s[i] # s[j]}

SeqsUpTo(S, lo, hi) == UNION {[1..k -> S] : k \in lo..hi}

\* ------------------------------------------------------------ characters

Digits == {"0", "1", "2", "3", "4", "5", "6", "7", "8", "9"}

DigitVal(c) ==
    CASE c = "0" -> 0 [] c = "1" -> 1 [] c = "2" -> 2 [] c = "3" -> 3
      [] c = "4" -> 4 [] c = "5" -> 5 [] c = "6" -> 6 [] c = "7" -> 7
      [] c = "8" -> 8 [] c = "9" -> 9

\* s[from..] starts with the literal lit
StartsWithAt(s, from, lit) ==
    /\ from + Len(lit) - 1 <= Len(s)
    /\ \A i \in 1..Len(lit) : s[from + i - 1] = lit[i]

\* ------------------------------------------------------------ bounds

MaxTags == 3
MaxPaths == 2
MaxWords == 5
MaxFragments == 3
MaxRewrites == 3
NumCallers == 2
MaxCalls == 2
MaxFields == 2
MaxVersions == 2

\* ------------------------------------------------------------ tags

None == "None"

LitAndroid == <<"a", "n", "d", "r", "o", "i", "d", "-">>

Tag44 == LitAndroid \o <<"4", ".", "4", "_", "r", "1">>
Tag50 == LitAndroid \o <<"5", ".", "0", ".", "0", "_", "r", "1">>
Tag502 == LitAndroid \o <<"5", ".", "0", ".", "2", "_", "r", "1">>
Tag60 == LitAndroid \o <<"6", ".", "0", ".", "1", "_", "r", "1">>
TagQ == LitAndroid \o <<"q", "-", "p", "r", "e", "v", "i", "e", "w", "-", "1">>
TagStudio == <<"s", "t", "u", "d", "i", "o", "-", "5", ".", "0">>

\* the tag names a modelled repository draws from
TagNames == {Tag44, Tag50, Tag60, TagQ, TagStudio}

PathMirror == "runtime/mirror/art_field.h"
PathArt == "runtime/art_field.h"
Paths == {PathMirror, PathArt}

\* a path that the tree of a tag does not hold
Absent == <<"ENOENT">>

\* header sources: the 5.x mirror::ArtField, the later art::ArtField, a class
\* without access_flags_, a header without the class, a header that does not
\* compile
HdrMirrorField == <<"p", "r", "o", "t", "e", "c", "t", "e", "d", ":", "M">>
HdrArtField == <<"p", "r", "i", "v", "a", "t", "e", ":", "A">>
HdrNoFlags == <<"p", "r", "i", "v", "a", "t", "e", ":", "R">>
HdrNoClass == <<"N">>
HdrBroken == <<"p", "r", "i", "v", "a", "t", "e", ":", "#">>

\* Python's None where a string is expected (a regex group that did not take part)
\* and where a number or a tuple is expected
NoComponent == -1
NoVersion == <<>>
NoMatch == [matched |-> FALSE, g3 |-> None, g4 |-> None, g5 |-> None]

\* try_parse_version_component
try_parse_version_component(component) ==
    IF component = None THEN NoComponent ELSE DigitVal(component)

\* tag_pattern.match(name): the groups 3, 4 and 5 of
\* ^android-(((\d)\.(\d))|(q)-), or no match
tag_pattern_match(name) ==
    IF ~StartsWithAt(name, 1, LitAndroid) THEN NoMatch
    ELSE IF /\ Len(name) >= 11
            /\ name[9] \in Digits /\ name[10] = "." /\ name[11] \in Digits
         THEN [matched |-> TRUE, g3 |-> name[9], g4 |-> name[11], g5 |-> None]
    ELSE IF StartsWithAt(name, 9, <<"q", "-">>)
         THEN [matched |-> TRUE, g3 |-> None, g4 |-> None, g5 |-> "q"]
    ELSE NoMatch

try_parse_tag(name) ==
    LET m == tag_pattern_match(name) IN
    IF ~m.matched THEN NoVersion
    ELSE LET major == try_parse_version_component(m.g3)
             minor == try_parse_version_component(m.g4)
         IN IF major = NoComponent THEN <<10, 0>> ELSE <<major, minor>>

\* a faulty is_relevant_tag, comparing major > 5
is_relevant_tag_strict(name) ==
    LET version == try_parse_tag(name) IN
    IF version = NoVersion THEN FALSE ELSE version[1] > 5

\* is_relevant_tag: the name parses and its major is at least 5
is_relevant_tag(name) ==
    LET version == try_parse_tag(name) IN
    IF version = NoVersion THEN FALSE ELSE version[1] >= 5

\* run_in_art_repo("git", "tag", "--sort=committerdate").split("\n"): the
\* listing of a repository without tags is one empty name
git_tag_listing == IF repoTags = <<>> THEN << <<>> >> ELSE repoTags

\* run_in_art_repo("git", "diff", previous_tag, tag, "--", path): empty exactly
\* when the path has the same content at both tags
git_diff(previous_tag, tag, path) ==
    IF blob[previous_tag][path] = blob[tag][path] THEN <<>> ELSE <<"d", "i", "f", "f">>

\* the loop of compute_tags_affecting_path from index i on
RECURSIVE tags_loop(_, _, _)
tags_loop(tags, i, path) ==
    IF i > Len(tags) THEN <<>>
    ELSE (IF i = 1 THEN <<tags[i]>>
          ELSE IF Len(git_diff(tags[i - 1], tags[i], path)) > 0 THEN <<tags[i]>>
          ELSE <<>>) \o tags_loop(tags, i + 1, path)

compute_tags_affecting_path(path) ==
    tags_loop(SelectSeq(git_tag_listing, is_relevant_tag), 1, path)

\* list(dict.fromkeys(tags).keys()): first occurrences, in order
dict_add(keys, key) == IF key \in Range(keys) THEN keys ELSE Append(keys, key)

RECURSIVE dict_fromkeys(_)
dict_fromkeys(s) ==
    IF s = <<>> THEN <<>>
    ELSE dict_add(dict_fromkeys(SubSeq(s, 1, Len(s) - 1)), s[Len(s)])

compute_tags_affecting(paths) ==
    dict_fromkeys(Concat([i \in 1..Len(paths) |-> compute_tags_affecting_path(paths[i])]))

IdleTags ==
    /\ repoTags = <<>>
    /\ blob = <<>>
    /\ argPaths = <<>>
    /\ tagsResult = <<>>
    /\ tagsPc = "idle"

StartTags ==
    /\ repoTags \in DistinctSeqs(TagNames, MaxTags)
    /\ blob \in [Range(repoTags) -> [Paths -> {HdrMirrorField, HdrArtField}]]
    /\ argPaths = <<>>
    /\ tagsResult = <<>>
    /\ tagsPc = "ready"

ComputeTags ==
    /\ tagsPc = "ready"
    /\ \E paths \in SeqsUpTo(Paths, 1, MaxPaths) :
        /\ argPaths' = paths
        /\ tagsResult' = compute_tags_affecting(paths)
    /\ tagsPc' = "done"
    /\ UNCHANGED <<repoTags, blob>>
    /\ UNCHANGED <<varsDump, varsRewrite, varsCache, varsWorld, varsProbe, varsMain>>

\* ------------------------------------------------------------ section dumps

\* the regex classes \s, \d and \w on the characters a dump holds
SpaceClass == {" ", "\n"}
WordClass ==
    Digits \cup {"_"} \cup
    {"a", "b", "c", "d", "e", "f", "g", "h", "i", "j", "k", "l", "m",
     "n", "o", "p", "q", "r", "s", "t", "u", "v", "w", "x", "y", "z",
     "A", "B", "C", "D", "E", "F", "G", "H", "I", "J", "K", "L", "M",
     "N", "O", "P", "Q", "R", "S", "T", "U", "V", "W", "X", "Y", "Z"}

IsSpace(c) == c \in SpaceClass

HexChars == <<"0", "1", "2", "3", "4", "5", "6", "7", "8", "9", "a", "b", "c", "d", "e", "f">>

\* the characters 0x20..0x7e, in order (0x60, which a string of the module cannot
\* hold, is written out by name: it is in no regex class the program uses)
Printable ==
    <<" ", "!", "\"", "#", "$", "%", "&", "'", "(", ")", "*", "+", ",", "-", ".", "/",
      "0", "1", "2", "3", "4", "5", "6", "7", "8", "9", ":", ";", "<", "=", ">", "?",
      "@", "A", "B", "C", "D", "E", "F", "G", "H", "I", "J", "K", "L", "M", "N", "O",
      "P", "Q", "R", "S", "T", "U", "V", "W", "X", "Y", "Z", "[", "\\", "]", "^", "_",
      "grave", "a", "b", "c", "d", "e", "f", "g", "h", "i", "j", "k", "l", "m", "n", "o",
      "p", "q", "r", "s", "t", "u", "v", "w", "x", "y", "z", "{", "|", "}", "~">>

\* two hex digits of a byte, and the four-digit address column
Hex2(b) == <<HexChars[(b \div 16) + 1], HexChars[(b % 16) + 1]>>
Hex4(a) == Hex2((a \div 256) % 256) \o Hex2(a % 256)

\* objdump's ASCII column: the character if printable, else a dot
AsciiChar(b) == IF b >= 32 /\ b <= 126 THEN Printable[b - 31] ELSE "."

\* one line of objdump -s: the address, sixteen byte columns in groups of four
\* (blank past the end of the section), a space, the ASCII column padded to
\* sixteen characters
DumpLine(data, a) ==
    <<" ">> \o Hex4(a) \o <<" ">>
    \o Concat([k \in 1..16 |->
            (IF a + k <= Len(data) THEN Hex2(data[a + k]) ELSE <<" ", " ">>)
            \o (IF k % 4 = 0 THEN <<" ">> ELSE <<>>)])
    \o <<" ">>
    \o [k \in 1..16 |-> IF a + k <= Len(data) THEN AsciiChar(data[a + k]) ELSE " "]
    \o <<"\n">>

DumpFileHeader ==
    <<"\n", "p", "r", "o", "b", "e", ".", "o", ":", " ", " ", " ", " ", " ",
      "f", "i", "l", "e", " ", "f", "o", "r", "m", "a", "t", " ",
      "e", "l", "f", "3", "2", "-", "l", "i", "t", "t", "l", "e", "a", "r", "m", "\n",
      "\n">>

DumpSectionHeader ==
    <<"C", "o", "n", "t", "e", "n", "t", "s", " ", "o", "f", " ",
      "s", "e", "c", "t", "i", "o", "n", " ", ".", "d", "a", "t", "a", ":", "\n">>

\* what objdump -sj .data prints for a section holding data
objdump_sj_data(data) ==
    IF data = <<>> THEN DumpFileHeader
    ELSE DumpFileHeader \o DumpSectionHeader
         \o Concat([l \in 1..((Len(data) + 15) \div 16) |-> DumpLine(data, 16 * (l - 1))])

\* the first position from p on whose character is not in the class, Len + 1 if none
RunEnd(t, p, class) ==
    Min({q \in p..(Len(t) + 1) : q = Len(t) + 1 \/ t[q] \notin class})

\* section_data_pattern, ^\s+\d+\s+([\w\s]+)\s{2,}, tried at position p. Each of
\* \s+ and \d+ before the group can only take its whole run; the third \s+ and
\* the group are greedy and give back as little as lets \s{2,} match: the group
\* starts as late and then ends as late as two whitespace characters still
\* follow it inside the run of [\w\s] characters.
NoDataMatch == [matched |-> FALSE, group |-> <<>>, end |-> 0]

GroupEnds(t, s, e) == {g \in s..(e - 3) : IsSpace(t[g + 1]) /\ IsSpace(t[g + 2])}

data_match_group(t, s, g) ==
    [matched |-> TRUE, group |-> SubSeq(t, s, g), end |-> RunEnd(t, g + 1, SpaceClass)]

data_match_starts(t, starts, e) ==
    IF starts = {} THEN NoDataMatch
    ELSE data_match_group(t, Max(starts), Max(GroupEnds(t, Max(starts), e)))

data_match_gap(t, b, c, e) ==
    IF c > b THEN data_match_starts(t, {s \in (b + 1)..c : GroupEnds(t, s, e) # {}}, e)
    ELSE NoDataMatch

data_match_digits(t, a, b) ==
    IF b > a THEN data_match_gap(t, b, RunEnd(t, b, SpaceClass), RunEnd(t, b, WordClass \cup SpaceClass))
    ELSE NoDataMatch

data_match_space(t, p, a) ==
    IF a > p THEN data_match_digits(t, a, RunEnd(t, a, Digits)) ELSE NoDataMatch

section_data_match(t, p) == data_match_space(t, p, RunEnd(t, p, SpaceClass))

\* ^ under re.MULTILINE
IsLineStart(t, p) == p = 1 \/ t[p - 1] = "\n"

\* section_data_pattern.findall(output), searching from position pos: the
\* leftmost match, then on from where it ended
RECURSIVE section_data_findall(_, _)
findall_from_match(t, m) == <<m.group>> \o section_data_findall(t, m.end)

findall_from_hits(t, hits) ==
    IF hits = {} THEN <<>> ELSE findall_from_match(t, section_data_match(t, Min(hits)))

section_data_findall(t, pos) ==
    findall_from_hits(t, {p \in pos..Len(t) :
                            IsLineStart(t, p) /\ section_data_match(t, p).matched})

\* str.replace(" ", "")
replace_spaces(s) == SelectSeq(s, LAMBDA ch : ch # " ")

HexVal(ch) ==
    CASE ch \in Digits -> DigitVal(ch)
      [] ch \in {"a", "A"} -> 10 [] ch \in {"b", "B"} -> 11 [] ch \in {"c", "C"} -> 12
      [] ch \in {"d", "D"} -> 13 [] ch \in {"e", "E"} -> 14 [] ch \in {"f", "F"} -> 15
      [] OTHER -> -1

\* int(s, 16) of a slice of one or two characters: surrounding whitespace is
\* stripped, what is left must be hex digits; ValueError is -1
int16_stripped(d) ==
    IF d = <<>> \/ \E i \in 1..Len(d) : HexVal(d[i]) < 0 THEN -1
    ELSE IF Len(d) = 1 THEN HexVal(d[1])
    ELSE 16 * HexVal(d[1]) + HexVal(d[2])

int16(s) == int16_stripped(SelectSeq(s, LAMBDA ch : ~IsSpace(ch)))

\* hex_bytes of parse_objdump_section_as_uint32_array
hex_bytes(output) == replace_spaces(Concat(section_data_findall(output, 1)))

\* raw_bytes: one number per slice hex_bytes[i:i + 2]
raw_bytes_of(h) ==
    [k \in 1..((Len(h) + 1) \div 2) |->
        int16(SubSeq(h, 2 * k - 1, IF 2 * k <= Len(h) THEN 2 * k ELSE Len(h)))]

raw_bytes(output) == raw_bytes_of(hex_bytes(output))

\* A Python integer below 2^32 is kept as its two 16-bit halves, so that no
\* value leaves the range of 32-bit integers.
\* the number itself, for a value below 2^31
U32Int(v) == 65536 * v.hi + v.lo

ByteAt(bs, i) == IF i <= Len(bs) THEN bs[i] ELSE 0

\* int.from_bytes(bs, byteorder="little") of at most four bytes
from_bytes_little(bs) ==
    [hi |-> ByteAt(bs, 3) + 256 * ByteAt(bs, 4), lo |-> ByteAt(bs, 1) + 256 * ByteAt(bs, 2)]

\* the slices raw_bytes[i:i + 4] for i in range(0, len(raw_bytes), 4), the last
\* one as short as what is left
uint32_groups(raw) ==
    [k \in 1..((Len(raw) + 3) \div 4) |->
        from_bytes_little(SubSeq(raw, 4 * k - 3, IF 4 * k <= Len(raw) THEN 4 * k ELSE Len(raw)))]

\* parse_objdump_section_as_uint32_array: the list, or the ValueError of int()
uint32_array_of(raw) ==
    IF \E k \in 1..Len(raw) : raw[k] < 0
    THEN [raised |-> TRUE, value |-> <<>>]
    ELSE [raised |-> FALSE, value |-> uint32_groups(raw)]

parse_objdump_section_as_uint32_array(output) == uint32_array_of(raw_bytes(output))

\* unsigned int values[] as the compiler lays it out: four bytes each, little-endian
uint32_bytes(w) == <<w % 256, (w \div 256) % 256, (w \div 65536) % 256, (w \div 16777216) % 256>>

values_bytes(ws) == Concat([i \in 1..Len(ws) |-> uint32_bytes(ws[i])])

\* the words a modelled section draws from: two small numbers, 0x30303030
\* (printed as 0000 in the ASCII column) and 0x30473030 (printed as 00G0); up
\* to three stray bytes 04 may follow the words
DataWords == {4, 8, 808464432, 809971760}

StartDump ==
    /\ \E ws \in SeqsUpTo(DataWords, 0, MaxWords), tail \in SeqsUpTo({4}, 0, 3) :
        sectionBytes = values_bytes(ws) \o tail
    /\ dumpText = <<>>
    /\ parsed = [raised |-> FALSE, value |-> <<>>]
    /\ dumpPc = "compiled"

\* objdump prints the section
Objdump ==
    /\ dumpPc = "compiled"
    /\ dumpText' = objdump_sj_data(sectionBytes)
    /\ dumpPc' = "dumped"
    /\ UNCHANGED <<sectionBytes, parsed>>
    /\ UNCHANGED <<varsTags, varsRewrite, varsCache, varsWorld, varsProbe, varsMain>>

\* the program decodes what objdump printed
ParseDump ==
    /\ dumpPc = "dumped"
    /\ parsed' = parse_objdump_section_as_uint32_array(dumpText)
    /\ dumpPc' = "parsed"
    /\ UNCHANGED <<sectionBytes, dumpText>>
    /\ UNCHANGED <<varsTags, varsRewrite, varsCache, varsWorld, varsProbe, varsMain>>

NextDump == Objdump \/ ParseDump

IdleDump ==
    /\ sectionBytes = <<>>
    /\ dumpText = <<>>
    /\ parsed = [raised |-> FALSE, value |-> <<>>]
    /\ dumpPc = "idle"

\* ------------------------------------------------------------ header rewrite

LitProtected == <<"p", "r", "o", "t", "e", "c", "t", "e", "d", ":">>
LitPrivate == <<"p", "r", "i", "v", "a", "t", "e", ":">>
LitPublic == <<"p", "u", "b", "l", "i", "c", ":">>

\* str.replace(old, new): the occurrences of old, leftmost first and not
\* overlapping, each replaced by new
RECURSIVE str_replace(_, _, _)
str_replace(s, old, new) ==
    IF Len(s) < Len(old) THEN s
    ELSE IF StartsWithAt(s, 1, old)
         THEN new \o str_replace(SubSeq(s, Len(old) + 1, Len(s)), old, new)
         ELSE <<Head(s)>> \o str_replace(Tail(s), old, new)

\* a faulty rewrite, turning private: into protected:
rewrite_access_control_chained(header_source) ==
    str_replace(str_replace(header_source, LitProtected, LitPublic), LitPrivate, LitProtected)

\* header_source.replace("protected:", "public:").replace("private:", "public:")
rewrite_access_control(header_source) ==
    str_replace(str_replace(header_source, LitProtected, LitPublic), LitPrivate, LitPublic)

\* the pieces a modelled header is put together from: the three keywords, and
\* heads and tails of them that can meet around a replacement
HeaderFragments ==
    {LitProtected, LitPrivate, LitPublic,
     <<"p">>, <<"p", "r">>, <<"p", "r", "o">>, <<"r", "i", "v", "a", "t", "e", ":">>, <<"t", "e", "c", "t", "e", "d", ":">>, <<"u", "b", "l", "i", "c", ":">>,
     <<" ", "i", "n", "t", " ", "f", ";", "\n">>}

StartRewrite ==
    /\ \E fs \in SeqsUpTo(HeaderFragments, 0, MaxFragments) : headerOrig = Concat(fs)
    /\ headerSource = headerOrig
    /\ rewrites = 0

\* one probe of the version, for any architecture, reads the header, rewrites
\* it and writes it back
RewriteHeader ==
    /\ rewrites < MaxRewrites
    /\ headerSource' = rewrite_access_control(headerSource)
    /\ rewrites' = rewrites + 1
    /\ UNCHANGED headerOrig
    /\ UNCHANGED <<varsTags, varsDump, varsCache, varsWorld, varsProbe, varsMain>>

IdleRewrite ==
    /\ headerOrig = <<>>
    /\ headerSource = <<>>
    /\ rewrites = 0

\* ------------------------------------------------------------ worktree cache

RepoArt == <<"platform", "art">>
RepoSystemCore == <<"platform", "system", "core">>

\* os.path.join(cache_dir, tag, *repo)
worktree_dir(repo, tag) == <<"cache", tag>> \o repo

NotCalling == [pc |-> "idle", repo |-> <<>>, tag |-> <<>>, ret |-> <<>>, calls |-> 0]

StartCache ==
    /\ cacheDirs = {}
    /\ worktreeAdds = <<>>
    /\ callers = [w \in 1..NumCallers |-> NotCalling]

\* a process enters get_aosp_checkout(repo, version)
CallCheckout(w) ==
    /\ callers[w].pc = "idle"
    /\ callers[w].calls < MaxCalls
    /\ \E repo \in {RepoArt, RepoSystemCore}, tag \in {Tag50, Tag60} :
        callers' = [callers EXCEPT ![w] =
            [pc |-> "isdir", repo |-> repo, tag |-> tag, ret |-> <<>>, calls |-> @.calls + 1]]
    /\ UNCHANGED <<cacheDirs, worktreeAdds>>
    /\ UNCHANGED <<varsTags, varsDump, varsRewrite, varsWorld, varsProbe, varsMain>>

\* if not os.path.isdir(worktree_dir)
CheckIsDir(w) ==
    /\ callers[w].pc = "isdir"
    /\ callers' = [callers EXCEPT ![w].pc =
            IF worktree_dir(callers[w].repo, callers[w].tag) \in cacheDirs
            THEN "return" ELSE "add"]
    /\ UNCHANGED <<cacheDirs, worktreeAdds>>
    /\ UNCHANGED <<varsTags, varsDump, varsRewrite, varsWorld, varsProbe, varsMain>>

\* subprocess.run(["git", "worktree", "add", worktree_dir, tag], check=True):
\* git creates the directory, or fails because it is there already and
\* check=True raises CalledProcessError
WorktreeAdd(w) ==
    /\ callers[w].pc = "add"
    /\ LET dir == worktree_dir(callers[w].repo, callers[w].tag) IN
        /\ worktreeAdds' = Append(worktreeAdds, dir)
        /\ cacheDirs' = cacheDirs \cup {dir}
        /\ callers' = [callers EXCEPT ![w].pc = IF dir \in cacheDirs THEN "raised" ELSE "return"]
    /\ UNCHANGED <<varsTags, varsDump, varsRewrite, varsWorld, varsProbe, varsMain>>

\* return worktree_dir
ReturnCheckout(w) ==
    /\ callers[w].pc = "return"
    /\ callers' = [callers EXCEPT ![w].pc = "idle",
                                  ![w].ret = worktree_dir(callers[w].repo, callers[w].tag)]
    /\ UNCHANGED <<cacheDirs, worktreeAdds>>
    /\ UNCHANGED <<varsTags, varsDump, varsRewrite, varsWorld, varsProbe, varsMain>>

NextCache ==
    \E w \in 1..NumCallers :
        CallCheckout(w) \/ CheckIsDir(w) \/ WorktreeAdd(w) \/ ReturnCheckout(w)

IdleCache ==
    /\ cacheDirs = {}
    /\ worktreeAdds = <<>>
    /\ callers = <<>>

\* ------------------------------------------------------------ numbers as text

RECURSIVE NatToStr(_)
NatToStr(n) ==
    IF n < 10 THEN <<HexChars[n + 1]>> ELSE NatToStr(n \div 10) \o <<HexChars[(n % 10) + 1]>>

\* str(n), and what {} prints for a number
IntToStr(n) == IF n < 0 THEN <<"-">> \o NatToStr(-n) ELSE NatToStr(n)

\* e in s
Contains(s, e) == \E i \in 1..(Len(s) + 1) : StartsWithAt(s, i, e)

\* ------------------------------------------------------------ versions

\* api_levels
api_levels ==
    { <<<<"5", ".", "0">>, 21>>, <<<<"5", ".", "1">>, 22>>, <<<<"6", ".", "0">>, 23>>,
      <<<<"7", ".", "0">>, 24>>, <<<<"7", ".", "1">>, 25>>, <<<<"8", ".", "0">>, 26>>,
      <<<<"8", ".", "1">>, 27>>, <<<<"9", ".", "0">>, 28>>, <<<<"1", "0", ".", "0">>, 29>> }

NoApiLevel == -1

\* api_levels["{}.{}".format(major, minor)], or that the key is missing
api_level_of(major, minor) ==
    LET key == IntToStr(major) \o <<".">> \o IntToStr(minor)
        hit == {e \in api_levels : e[1] = key}
    IN IF hit = {} THEN NoApiLevel ELSE (CHOOSE e \in hit : TRUE)[2]

\* AndroidVersion.from_tag(tag) for a tag try_parse_tag accepts
from_tag(tag) ==
    LET v == try_parse_tag(tag) IN
    [tag |-> tag, major |-> v[1], minor |-> v[2], api_level |-> api_level_of(v[1], v[2])]

\* ------------------------------------------------------------ toolchains

ArchSweep == <<"arm", "x86", "arm64", "x86_64">>
Archs == Range(ArchSweep)

ArchChars(arch) ==
    CASE arch = "arm" -> <<"a", "r", "m">>
      [] arch = "x86" -> <<"x", "8", "6">>
      [] arch = "arm64" -> <<"a", "r", "m", "6", "4">>
      [] arch = "x86_64" -> <<"x", "8", "6", "_", "6", "4">>

host_triplets_generic(arch) ==
    CASE arch = "x86" -> "i686-linux-android"
      [] arch = "x86_64" -> "x86_64-linux-android"
      [] arch = "arm" -> "arm-linux-androideabi"
      [] arch = "arm64" -> "aarch64-linux-android"

host_triplets_abi(arch) ==
    CASE arch = "x86" -> "i686-linux-android"
      [] arch = "x86_64" -> "x86_64-linux-android"
      [] arch = "arm" -> "armv7a-linux-androideabi"
      [] arch = "arm64" -> "aarch64-linux-android"

\* get_toolchain(arch, flavor) with the standalone toolchains dirs installed: the
\* Toolchain, and the toolchains installed afterwards
get_toolchain(arch, flavor, dirs) ==
    LET api_level == IF Contains(ArchChars(arch), <<"6", "4">>) THEN 21 ELSE 16
        install_dir == IF flavor = "clang" THEN <<"ndk-r21", "llvm", "prebuilt">>
                       ELSE <<"cache", "toolchains", arch, flavor>>
        cxx_name == IF flavor = "clang" THEN "clang++" ELSE "g++"
        abi == IF flavor = "clang" THEN <<host_triplets_abi(arch), api_level>>
               ELSE <<host_triplets_generic(arch)>>
    IN [cxx |-> install_dir \o <<"bin">> \o abi \o <<cxx_name>>,
        cxxflags |-> (IF flavor = "clang" THEN <<"-std=c++2a">> ELSE <<"-std=c++14">>)
                     \o (IF arch = "arm" THEN <<"-march=armv7-a", "-mthumb">> ELSE <<>>)
                     \o (IF flavor = "clang" THEN <<"-Wno-inconsistent-missing-override">>
                         ELSE <<>>),
        objdump |-> install_dir \o <<"bin", host_triplets_generic(arch), "objdump">>,
        flavor |-> flavor,
        dirs |-> IF flavor = "clang" THEN dirs ELSE dirs \cup {install_dir}]

\* ------------------------------------------------------------ the compiler

DiagHasNoMember == <<"e", "r", "r", "o", "r", ":", " ", "'", "c", "l", "a", "s", "s", " ", "a", "r", "t", ":", ":", "A", "r", "t", "F", "i", "e", "l", "d", "'", " ", "h", "a", "s", " ", "n", "o", " ", "m", "e", "m", "b", "e", "r", " ", "n", "a", "m", "e", "d", " ", "'", "a", "c", "c", "e", "s", "s", "_", "f", "l", "a", "g", "s", "_", "'">>
DiagNoMemberIn == <<"e", "r", "r", "o", "r", ":", " ", "n", "o", " ", "m", "e", "m", "b", "e", "r", " ", "n", "a", "m", "e", "d", " ", "'", "a", "c", "c", "e", "s", "s", "_", "f", "l", "a", "g", "s", "_", "'", " ", "i", "n", " ", "'", "a", "r", "t", ":", ":", "A", "r", "t", "F", "i", "e", "l", "d", "'">>
DiagNotAMember == <<"e", "r", "r", "o", "r", ":", " ", "'", "A", "r", "t", "F", "i", "e", "l", "d", "'", " ", "i", "s", " ", "n", "o", "t", " ", "a", " ", "m", "e", "m", "b", "e", "r", " ", "o", "f", " ", "'", "a", "r", "t", ":", ":", "m", "i", "r", "r", "o", "r", "'">>
DiagNoMemberInNamespace == <<"e", "r", "r", "o", "r", ":", " ", "n", "o", " ", "m", "e", "m", "b", "e", "r", " ", "n", "a", "m", "e", "d", " ", "'", "A", "r", "t", "F", "i", "e", "l", "d", "'", " ", "i", "n", " ", "n", "a", "m", "e", "s", "p", "a", "c", "e", " ", "'", "a", "r", "t", ":", ":", "m", "i", "r", "r", "o", "r", "'">>
DiagPrivate == <<"e", "r", "r", "o", "r", ":", " ", "'", "a", "c", "c", "e", "s", "s", "_", "f", "l", "a", "g", "s", "_", "'", " ", "i", "s", " ", "a", " ", "p", "r", "i", "v", "a", "t", "e", " ", "m", "e", "m", "b", "e", "r", " ", "o", "f", " ", "'", "a", "r", "t", ":", ":", "A", "r", "t", "F", "i", "e", "l", "d", "'">>
DiagSyntax == <<"e", "r", "r", "o", "r", ":", " ", "e", "x", "p", "e", "c", "t", "e", "d", " ", "'", ";", "'", " ", "a", "f", "t", "e", "r", " ", "c", "l", "a", "s", "s">>

\* offsetof (class_name, field_name) in a class whose fields start at base
field_offset(base, field_name) == IF field_name = "access_flags_" THEN base + 4 ELSE base + 12

\* The compiler on the probe source against a header: its return code, what it
\* wrote to stderr, and the words of values[] in the object, sizeof first.
\* gcc and clang word a missing member differently.
cxx_run(header_source, field_names, toolchain) ==
    LET fail(diag) == [returncode |-> 1, stderr |-> diag, values |-> <<>>]
        ok(base) == [returncode |-> 0, stderr |-> <<>>,
                     values |-> <<base + 16>>
                                \o [i \in 1..Len(field_names) |-> field_offset(base, field_names[i])]]
    IN IF Contains(header_source, LitPrivate) \/ Contains(header_source, LitProtected)
       THEN fail(DiagPrivate)
       ELSE CASE header_source = rewrite_access_control(HdrMirrorField) -> ok(8)
              [] header_source = rewrite_access_control(HdrArtField) -> ok(0)
              [] header_source = rewrite_access_control(HdrNoFlags) ->
                    IF "access_flags_" \notin Range(field_names) THEN ok(0)
                    ELSE IF toolchain.flavor = "clang" THEN fail(DiagNoMemberIn)
                    ELSE fail(DiagHasNoMember)
              [] header_source = rewrite_access_control(HdrNoClass) ->
                    IF toolchain.flavor = "clang" THEN fail(DiagNoMemberInNamespace)
                    ELSE fail(DiagNotAMember)
              [] OTHER -> fail(DiagSyntax)

\* ------------------------------------------------------------ probe_offsets

\* a faulty ignored_errors, without its second entry
ignored_errors_first_only == << <<"i", "s", " ", "n", "o", "t", " ", "a", " ", "m", "e", "m", "b", "e", "r", " ", "o", "f">> >>

\* ignored_errors
ignored_errors == << <<"i", "s", " ", "n", "o", "t", " ", "a", " ", "m", "e", "m", "b", "e", "r", " ", "o", "f">>, <<"h", "a", "s", " ", "n", "o", " ", "m", "e", "m", "b", "e", "r", " ", "n", "a", "m", "e", "d">> >>

\* a faulty sentinel list, without the entries of the fields
header_absent_result_short(field_names) == <<-1>>

\* [-1] + [-1 for n in field_names]
header_absent_result(field_names) == <<-1>> \o [i \in 1..Len(field_names) |-> -1]

\* [-2] + [-2 for n in field_names]
member_removed_result(field_names) == <<-2>> \o [i \in 1..Len(field_names) |-> -2]

\* get_aosp_checkout(repo, version) when nothing else runs: the directory, the
\* directories and the git worktree add commands afterwards
get_aosp_checkout(repo, version, dirs, adds) ==
    LET dir == worktree_dir(repo, version.tag) IN
    [ret |-> dir,
     dirs |-> dirs \cup {dir},
     adds |-> IF dir \in dirs THEN adds ELSE Append(adds, dir)]

\* the files of the worktrees once the checkouts of a version exist: git fills
\* a new ART worktree from the tag
files_after_checkout(version, dirs, files) ==
    IF worktree_dir(RepoArt, version.tag) \in dirs THEN files
    ELSE [k \in DOMAIN files \cup {<<version.tag, p>> : p \in Paths} |->
            IF k \in DOMAIN files THEN files[k] ELSE blob[k[1]][k[2]]]

\* The world a probe runs in and leaves behind.
World ==
    [dirs |-> cacheDirs, adds |-> worktreeAdds, files |-> worktreeFiles,
     toolchains |-> toolchainDirs, toolchainRuns |-> toolchainRuns, cxxRuns |-> cxxRuns,
     objdumpRuns |-> objdumpRuns, headerWrites |-> headerWrites, lastCxx |-> lastCxx,
     stdout |-> stdout]

NoCxx == [returncode |-> 0, stderr |-> <<>>, values |-> <<>>]

\* probe_offsets from the return of objdump on: the decoded list, or ValueError
probe_decoded(out, w) ==
    IF out.raised THEN [raised |-> TRUE, ret |-> <<>>, world |-> w]
    ELSE [raised |-> FALSE,
          ret |-> [i \in 1..Len(out.value) |-> U32Int(out.value[i])],
          world |-> w]

\* probe_offsets from the return of the compiler on
probe_compiled(field_names, cxx_result, w) ==
    IF cxx_result.returncode # 0
    THEN IF \E i \in 1..Len(ignored_errors) : Contains(cxx_result.stderr, ignored_errors[i])
         THEN [raised |-> FALSE, ret |-> member_removed_result(field_names), world |-> w]
         ELSE [raised |-> TRUE, ret |-> <<>>,
               world |-> [w EXCEPT !.stdout = Append(@, cxx_result.stderr)]]
    ELSE probe_decoded(
            parse_objdump_section_as_uint32_array(objdump_sj_data(values_bytes(cxx_result.values))),
            [w EXCEPT !.objdumpRuns = @ + 1])

\* probe_offsets from the rewritten header source and the toolchain on
probe_rewritten(header_path, field_names, header_source, toolchain, w) ==
    probe_compiled(field_names,
        cxx_run(header_source, field_names, toolchain),
        [w EXCEPT !.files[header_path] = header_source,
                  !.headerWrites = @ + 1,
                  !.toolchains = toolchain.dirs,
                  !.toolchainRuns = @ + 1,
                  !.cxxRuns = @ + 1,
                  !.lastCxx = cxx_run(header_source, field_names, toolchain)])

\* probe_offsets once both checkouts exist
probe_checked_out(header_path, field_names, version, arch, w) ==
    IF w.files[header_path] = Absent
    THEN [raised |-> FALSE, ret |-> header_absent_result(field_names), world |-> w]
    ELSE probe_rewritten(header_path, field_names,
            rewrite_access_control(w.files[header_path]),
            get_toolchain(arch, IF version.major >= 7 THEN "clang" ELSE "gcc", w.toolchains),
            w)

\* the world after the two get_aosp_checkout calls of probe_offsets
world_checked_out(version, w, core) ==
    [w EXCEPT !.dirs = get_aosp_checkout(RepoArt, version, core.dirs, core.adds).dirs,
              !.adds = get_aosp_checkout(RepoArt, version, core.dirs, core.adds).adds,
              !.files = files_after_checkout(version, w.dirs, w.files)]

\* probe_offsets(header, class_name, field_names, version, arch) in world w:
\* whether it returned or raised, what it returned, and the world afterwards
probe_offsets(header, field_names, version, arch, w) ==
    probe_checked_out(<<version.tag, header>>, field_names, version, arch,
        world_checked_out(version, w,
            get_aosp_checkout(RepoSystemCore, version, w.dirs, w.adds)))

\* the variables after a probe left the world w
WorldBecomes(w) ==
    /\ cacheDirs' = w.dirs
    /\ worktreeAdds' = w.adds
    /\ worktreeFiles' = w.files
    /\ toolchainDirs' = w.toolchains
    /\ toolchainRuns' = w.toolchainRuns
    /\ cxxRuns' = w.cxxRuns
    /\ objdumpRuns' = w.objdumpRuns
    /\ headerWrites' = w.headerWrites
    /\ lastCxx' = w.lastCxx
    /\ stdout' = w.stdout

\* the tree of a tag holding the two headers with the given contents
Tree(mirror, art) == [p \in Paths |-> IF p = PathMirror THEN mirror ELSE art]

\* the trees a modelled tag draws from: the class in the one header, the
\* other, both or neither, moved out of the first header, without its field
\* in either, and a header that does not compile
TreeKinds ==
    {Tree(HdrMirrorField, Absent), Tree(Absent, HdrArtField), Tree(Absent, Absent),
     Tree(HdrNoClass, HdrArtField), Tree(HdrNoFlags, Absent), Tree(Absent, HdrNoFlags),
     Tree(HdrBroken, Absent), Tree(HdrMirrorField, HdrArtField)}

ProbeTags == {Tag50, Tag502, TagQ}

FreshWorld ==
    /\ worktreeFiles = <<>>
    /\ toolchainDirs = {}
    /\ toolchainRuns = 0
    /\ cxxRuns = 0
    /\ objdumpRuns = 0
    /\ headerWrites = 0
    /\ lastCxx = NoCxx
    /\ stdout = <<>>

NoCall == [header |-> "", field_names |-> <<>>, version |-> <<>>, arch |-> ""]

\* one tag with its tree, an empty cache, and a call about to be made
StartProbe ==
    /\ \E tag \in ProbeTags : repoTags = <<tag>>
    /\ blob \in [Range(repoTags) -> TreeKinds]
    /\ argPaths = <<>> /\ tagsResult = <<>> /\ tagsPc = "idle"
    /\ IdleCache
    /\ FreshWorld
    /\ \E header \in Paths, arch \in Archs, field_names \in SeqsUpTo({"access_flags_", "offset_"}, 0, MaxFields) :
        probeCall = [header |-> header, field_names |-> field_names,
                     version |-> from_tag(repoTags[1]), arch |-> arch]
    /\ probeRet = [raised |-> FALSE, ret |-> <<>>]
    /\ probePc = "ready"

\* an earlier probe of the same version, for any header and architecture: it
\* leaves the worktrees, and perhaps a rewritten header, behind
EarlierProbe ==
    /\ probePc = "ready"
    /\ cacheDirs = {}
    /\ \E header \in Paths, arch \in Archs :
        \E r \in {probe_offsets(header, <<"access_flags_">>, probeCall.version, arch, World)} :
           /\ ~r.raised
           /\ WorldBecomes([r.world EXCEPT !.toolchainRuns = 0, !.cxxRuns = 0,
                                           !.objdumpRuns = 0, !.headerWrites = 0,
                                           !.lastCxx = NoCxx])
    /\ UNCHANGED <<probeCall, probeRet, probePc>>
    /\ UNCHANGED <<varsTags, varsDump, varsRewrite, callers, varsMain>>

\* the call under study
CallProbeOffsets ==
    /\ probePc = "ready"
    /\ \E r \in {probe_offsets(probeCall.header, probeCall.field_names, probeCall.version,
                                probeCall.arch, World)} :
          /\ probeRet' = [raised |-> r.raised, ret |-> r.ret]
          /\ WorldBecomes(r.world)
    /\ probePc' = "called"
    /\ UNCHANGED probeCall
    /\ UNCHANGED <<varsTags, varsDump, varsRewrite, callers, varsMain>>

NextProbe == EarlierProbe \/ CallProbeOffsets

IdleProbe ==
    /\ probeCall = NoCall
    /\ probeRet = [raised |-> FALSE, ret |-> <<>>]
    /\ probePc = "idle"

\* ------------------------------------------------------------ main

LitSize == <<"s", "i", "z", "e", "=">>
LitAccessFlags == <<" ", "a", "c", "c", "e", "s", "s", "_", "f", "l", "a", "g", "s", "=">>
LitComment == <<"/", "/", " ">>

\* "{}-{}".format(arch, version.api_level)
format_key(arch, api_level) == ArchChars(arch) \o <<"-">> \o IntToStr(api_level)

\* "size={} access_flags={}".format(size, access_flags)
format_value(size, access_flags) ==
    LitSize \o IntToStr(size) \o LitAccessFlags \o IntToStr(access_flags)

\* "// {} => {}".format(key, value)
format_progress(key, value) == LitComment \o key \o <<" ", "=", ">", " ">> \o value

\* ord(c)
CharCode(c) == 31 + (CHOOSE i \in 1..Len(Printable) : Printable[i] = c)

\* a < b on str: by code point at the first difference, a proper prefix first
str_less(a, b) ==
    \E i \in 1..(Len(a) + 1) :
        /\ i <= Len(b)
        /\ \A k \in 1..(i - 1) : a[k] = b[k]
        /\ (i = Len(a) + 1 \/ CharCode(a[i]) < CharCode(b[i]))

\* entries = list(set(entries)); entries.sort()
RECURSIVE sorted_list(_)
sorted_from(S, first) == <<first>> \o sorted_list(S \ {first})

sorted_list(S) ==
    IF S = {} THEN <<>>
    ELSE sorted_from(S, CHOOSE x \in S : \A y \in S \ {x} : str_less(x, y))

\* result.get(key, [])
dict_get(d, key) ==
    IF \E i \in 1..Len(d) : d[i].key = key
    THEN d[CHOOSE i \in 1..Len(d) : d[i].key = key].entries
    ELSE <<>>

\* result[key] = entries on an OrderedDict: a key it holds keeps its place, a
\* new key goes last
dict_set(d, key, entries) ==
    IF \E i \in 1..Len(d) : d[i].key = key
    THEN [i \in 1..Len(d) |-> IF d[i].key = key THEN [key |-> key, entries |-> entries] ELSE d[i]]
    ELSE Append(d, [key |-> key, entries |-> entries])

Quoted(s) == <<"\"">> \o s \o <<"\"">>

\* json.dumps(result, indent=2), line by line: the items in the order of the
\* dictionary, the strings of a list in the order of the list
json_list_lines(entries) ==
    [i \in 1..Len(entries) |->
        <<" ", " ", " ", " ">> \o Quoted(entries[i])
        \o (IF i < Len(entries) THEN <<",">> ELSE <<>>)]

json_item_lines(d, i) ==
    << <<" ", " ">> \o Quoted(d[i].key) \o <<":", " ", "[">> >>
    \o json_list_lines(d[i].entries)
    \o << <<" ", " ", "]">> \o (IF i < Len(d) THEN <<",">> ELSE <<>>) >>

json_dumps(d) ==
    IF d = <<>> THEN << <<"{", "}">> >>
    ELSE << <<"{">> >> \o Concat([i \in 1..Len(d) |-> json_item_lines(d, i)]) \o << <<"}">> >>

\* a faulty test, falling back only from an absent header
needs_fallback_absent_only(size) == size = -1

\* if size < 0
needs_fallback(size) == size < 0

\* the probe of runtime/art_field.h an iteration makes when the probe of
\* runtime/mirror/art_field.h returned a negative size
main_fallback(primary, version, arch) ==
    IF primary.raised \/ ~needs_fallback(primary.ret[1]) THEN primary
    ELSE probe_offsets(PathArt, <<"access_flags_">>, version, arch, primary.world)

\* the rest of the loop body: format, print, and fold into result
main_fold(primary, final, key, value) ==
    /\ WorldBecomes([final.world EXCEPT !.stdout = Append(@, format_progress(key, value))])
    /\ result' = dict_set(result, key, sorted_list(Range(Append(dict_get(result, key), value))))
    /\ probeLog' = Append(probeLog,
            [arch |-> ArchSweep[mainArch],
             api_level |-> versions[mainVersion].api_level,
             primary |-> primary.ret,
             fallback |-> IF needs_fallback(primary.ret[1]) THEN final.ret ELSE <<>>])
    /\ mainVersion' = IF mainVersion < Len(versions) THEN mainVersion + 1 ELSE 1
    /\ mainArch' = IF mainVersion < Len(versions) THEN mainArch ELSE mainArch + 1
    /\ mainPc' = IF mainVersion = Len(versions) /\ mainArch = Len(ArchSweep)
                 THEN "report" ELSE "loop"

IdleMain ==
    /\ versions = <<>>
    /\ mainArch = 0
    /\ mainVersion = 0
    /\ result = <<>>
    /\ probeLog = <<>>
    /\ mainPc = "idle"

\* a repository, an empty cache, and main about to run
StartMain ==
    /\ repoTags \in DistinctSeqs(ProbeTags, MaxVersions)
    /\ blob \in [Range(repoTags) -> TreeKinds]
    /\ argPaths = <<>> /\ tagsResult = <<>> /\ tagsPc = "idle"
    /\ IdleCache
    /\ FreshWorld
    /\ versions = <<>>
    /\ mainArch = 1
    /\ mainVersion = 1
    /\ result = <<>>
    /\ probeLog = <<>>
    /\ mainPc = "start"

\* tags = compute_tags_affecting(...); versions = [from_tag(tag) for tag in tags]:
\* a tag whose version api_levels does not hold raises KeyError
MainComputeTags ==
    /\ mainPc = "start"
    /\ argPaths' = <<PathMirror, PathArt>>
    /\ tagsResult' = compute_tags_affecting(<<PathMirror, PathArt>>)
    /\ tagsPc' = "done"
    /\ IF \E i \in 1..Len(tagsResult') : from_tag(tagsResult'[i]).api_level = NoApiLevel
       THEN versions' = <<>> /\ mainPc' = "aborted"
       ELSE /\ versions' = [i \in 1..Len(tagsResult') |-> from_tag(tagsResult'[i])]
            /\ mainPc' = IF tagsResult' = <<>> THEN "report" ELSE "loop"
    /\ UNCHANGED <<repoTags, blob, mainArch, mainVersion, result, probeLog>>
    /\ UNCHANGED <<varsDump, varsRewrite, varsCache, varsWorld, varsProbe>>

\* one pass through the body of the two loops; an exception of probe_offsets
\* ends the run
MainProbe ==
    /\ mainPc = "loop"
    /\ \E primary \in {probe_offsets(PathMirror, <<"access_flags_">>, versions[mainVersion],
                                     ArchSweep[mainArch], World)} :
         \E final \in {main_fallback(primary, versions[mainVersion], ArchSweep[mainArch])} :
            IF final.raised
            THEN /\ WorldBecomes(final.world)
                 /\ mainPc' = "aborted"
                 /\ UNCHANGED <<mainArch, mainVersion, result, probeLog>>
            ELSE main_fold(primary, final,
                           format_key(ArchSweep[mainArch], versions[mainVersion].api_level),
                           format_value(final.ret[1], final.ret[2]))
    /\ UNCHANGED <<varsTags, versions, callers>>
    /\ UNCHANGED <<varsDump, varsRewrite, varsProbe>>

\* print(json.dumps(result, indent=2))
MainReport ==
    /\ mainPc = "report"
    /\ stdout' = stdout \o json_dumps(result)
    /\ mainPc' = "done"
    /\ UNCHANGED <<versions, mainArch, mainVersion, result, probeLog>>
    /\ UNCHANGED <<worktreeFiles, toolchainDirs, toolchainRuns, cxxRuns, objdumpRuns,
                   headerWrites, lastCxx>>
    /\ UNCHANGED <<varsTags, varsDump, varsRewrite, varsCache, varsProbe>>

NextMain == MainComputeTags \/ MainProbe \/ MainReport

\* ------------------------------------------------------------ specifications

\* compute_tags_affecting on a repository
InitTags == StartTags /\ IdleDump /\ IdleRewrite /\ IdleCache /\ FreshWorld /\ IdleProbe /\ IdleMain

SpecTags == InitTags /\ [][ComputeTags]_vars

\* objdump and parse_objdump_section_as_uint32_array on a section
InitDump == StartDump /\ IdleTags /\ IdleRewrite /\ IdleCache /\ FreshWorld /\ IdleProbe /\ IdleMain

SpecDump == InitDump /\ [][NextDump]_vars

\* the rewrites of one header by the probes of a version
InitRewrite == StartRewrite /\ IdleTags /\ IdleDump /\ IdleCache /\ FreshWorld /\ IdleProbe /\ IdleMain

SpecRewrite == InitRewrite /\ [][RewriteHeader]_vars

\* get_aosp_checkout called by processes sharing the cache directory
InitCache == StartCache /\ IdleTags /\ IdleDump /\ IdleRewrite /\ FreshWorld /\ IdleProbe /\ IdleMain

SpecCache == InitCache /\ [][NextCache]_vars

\* one probe_offsets call, on a fresh or a used cache
InitProbe == StartProbe /\ IdleDump /\ IdleRewrite /\ IdleMain

SpecProbe == InitProbe /\ [][NextProbe]_vars

\* one run of main
InitMain == StartMain /\ IdleDump /\ IdleRewrite /\ IdleProbe

SpecMain == InitMain /\ [][NextMain]_vars

\* ------------------------------------------------------------ claims: tags

\* the release-tag convention with its major version at least 5: android-, then
\* one digit from 5 to 9, a dot and a digit, or the codename q and a dash
ReleaseTagFrom5(name) ==
    /\ Len(name) >= 10
    /\ SubSeq(name, 1, 8) = LitAndroid
    /\ \/ /\ name[9] \in {"5", "6", "7", "8", "9"}
          /\ name[10] = "."
          /\ Len(name) >= 11 /\ name[11] \in Digits
       \/ name[9] = "q" /\ name[10] = "-"

EligibleAt == {i \in 1..Len(git_tag_listing) : ReleaseTagFrom5(git_tag_listing[i])}

PrecedingEligible(i) == Max({j \in EligibleAt : j < i})

ChangedAt(i) ==
    \E p \in Range(argPaths) :
        blob[git_tag_listing[i]][p] # blob[git_tag_listing[PrecedingEligible(i)]][p]

AffectedAt == {i \in EligibleAt : i = Min(EligibleAt) \/ ChangedAt(i)}

\* C1: compute_tags_affecting returns a tag if and only if the tag is eligible
\* and is the earliest eligible tag or differs from the eligible tag before it
\* in at least one of the given paths.
C1_TagsReturnedIff ==
    tagsPc = "done" =>
        Range(tagsResult) = {git_tag_listing[i] : i \in AffectedAt}

\* a call with two paths where a tag that is not eligible lies between two
\* eligible ones: the later one has both paths as the earlier one has them,
\* differs from the tag in between, and is not returned
C1_Witness ==
    /\ tagsPc = "done"
    /\ Len(argPaths) = 2 /\ argPaths[1] # argPaths[2]
    /\ \E i \in EligibleAt :
          /\ i # Min(EligibleAt)
          /\ i - 1 \notin EligibleAt
          /\ ~ChangedAt(i)
          /\ \E p \in Range(argPaths) :
                blob[git_tag_listing[i]][p] # blob[git_tag_listing[i - 1]][p]
          /\ git_tag_listing[i] \notin Range(tagsResult)
    /\ Len(tagsResult) = 1

ListingIndex(name) == CHOOSE i \in 1..Len(git_tag_listing) : git_tag_listing[i] = name

\* C2: the result of compute_tags_affecting is in committer-date order, oldest
\* first, without duplicates, also for several paths.
C2_ResultInCommitOrder ==
    tagsPc = "done" =>
        \A i, j \in 1..Len(tagsResult) :
            i < j => ListingIndex(tagsResult[i]) < ListingIndex(tagsResult[j])

\* ------------------------------------------------------------ claims: dumps

\* the k-th little-endian word of a byte sequence
WordAt(bs, k) ==
    [hi |-> bs[4 * k - 1] + 256 * bs[4 * k], lo |-> bs[4 * k - 3] + 256 * bs[4 * k - 2]]

\* C3: decoding the dump of a section whose length is a multiple of four gives
\* back its little-endian words, whatever the number of lines.
C3_RoundTrip ==
    (dumpPc = "parsed" /\ Len(sectionBytes) % 4 = 0) =>
        /\ ~parsed.raised
        /\ parsed.value = [k \in 1..(Len(sectionBytes) \div 4) |-> WordAt(sectionBytes, k)]

\* C4: when the number of decoded bytes is not a multiple of four, the bytes
\* past the last whole group are dropped.
C4_TrailingBytesDropped ==
    (dumpPc = "parsed" /\ ~parsed.raised /\ Len(raw_bytes(dumpText)) % 4 # 0) =>
        LET raw == raw_bytes(dumpText) IN
        parsed.value = [k \in 1..(Len(raw) \div 4) |-> WordAt(raw, k)]

\* ------------------------------------------------------------ claims: rewrite

\* C10: rewriting a header that a probe has already rewritten leaves it as it
\* is, so every later probe of the version finds the content the first left.
C10_RewriteIdempotent ==
    rewrites >= 1 =>
        /\ rewrite_access_control(headerSource) = headerSource
        /\ headerSource = rewrite_access_control(headerOrig)

\* a header holding both keywords next to heads or tails of keywords, after
\* its third rewrite
C10_Witness ==
    /\ rewrites = 3
    /\ headerSource # headerOrig
    /\ \E i, j \in 1..Len(headerOrig) :
          StartsWithAt(headerOrig, i, LitProtected) /\ StartsWithAt(headerOrig, j, LitPrivate)
    /\ Len(headerOrig) > Len(LitProtected) + Len(LitPrivate)

\* ------------------------------------------------------------ claims: cache

\* C9: however the calls of get_aosp_checkout repeat or overlap, git worktree
\* add is issued at most once for a repository and tag.
C9_WorktreeAddAtMostOnce ==
    \A i, j \in 1..Len(worktreeAdds) : worktreeAdds[i] = worktreeAdds[j] => i = j

\* ------------------------------------------------------------ claims: probe_offsets

\* the header the call under study asks for, as the tag holds it
CalledHeader == blob[probeCall.version.tag][probeCall.header]

\* C5: a probe_offsets call for a header the tree of the version does not hold
\* returns -1 for the size and for each requested field, and runs no compiler,
\* no objdump, resolves no toolchain and writes no header.
C5_HeaderAbsentSentinel ==
    (probePc = "called" /\ CalledHeader = Absent) =>
        /\ ~probeRet.raised
        /\ Len(probeRet.ret) = 1 + Len(probeCall.field_names)
        /\ \A i \in 1..Len(probeRet.ret) : probeRet.ret[i] = -1
        /\ cxxRuns = 0
        /\ objdumpRuns = 0
        /\ toolchainRuns = 0
        /\ headerWrites = 0

\* a call for two fields of an absent header, in a cache an earlier probe of
\* the other header has filled and rewritten
C5_Witness ==
    /\ probePc = "called"
    /\ CalledHeader = Absent
    /\ Len(probeCall.field_names) = 2
    /\ probeRet.ret = <<-1, -1, -1>>
    /\ \E p \in Paths :
          /\ blob[probeCall.version.tag][p] # Absent
          /\ worktreeFiles[<<probeCall.version.tag, p>>] # blob[probeCall.version.tag][p]

IsNotAMemberOf ==
    <<"i", "s", " ", "n", "o", "t", " ", "a", " ", "m", "e", "m", "b", "e", "r", " ", "o", "f">>

HasNoMemberNamed ==
    <<"h", "a", "s", " ", "n", "o", " ", "m", "e", "m", "b", "e", "r", " ", "n", "a", "m", "e", "d">>

\* the compiler of the call under study ran and exited nonzero
CompilerFailed == probePc = "called" /\ cxxRuns = 1 /\ lastCxx.returncode # 0

Ignorable == Contains(lastCxx.stderr, IsNotAMemberOf) \/ Contains(lastCxx.stderr, HasNoMemberNamed)

\* C6: after a nonzero exit of the compiler, probe_offsets returns -2 for the
\* size and each requested field exactly when the diagnostic contains one of
\* the two ignorable substrings; otherwise it prints the diagnostic and raises,
\* returning nothing, and in neither case is objdump run.
C6_CompileFailureTriage ==
    CompilerFailed =>
        /\ objdumpRuns = 0
        /\ Ignorable =>
              /\ ~probeRet.raised
              /\ Len(probeRet.ret) = 1 + Len(probeCall.field_names)
              /\ \A i \in 1..Len(probeRet.ret) : probeRet.ret[i] = -2
        /\ ~Ignorable =>
              /\ probeRet.raised
              /\ probeRet.ret = <<>>
              /\ stdout # <<>>
              /\ stdout[Len(stdout)] = lastCxx.stderr

\* gcc reports that the class has no member named access_flags_, and the call
\* for two fields returns three times -2
C6_Witness ==
    /\ CompilerFailed
    /\ Contains(lastCxx.stderr, HasNoMemberNamed)
    /\ ~Contains(lastCxx.stderr, IsNotAMemberOf)
    /\ probeRet.ret = <<-2, -2, -2>>

\* ------------------------------------------------------------ claims: main

\* a measurement string whose size is negative
HasSentinel(value) == StartsWithAt(value, 1, LitSize \o <<"-">>)

TableValues == UNION {Range(result[i].entries) : i \in 1..Len(result)}

\* C7 as stated: no string of the result table carries the -1 or the -2 of
\* an absent header or a removed member.
C7_NoSentinelInTable == \A value \in TableValues : ~HasSentinel(value)

LogKey(p) == format_key(p.arch, p.api_level)

\* the outcome an iteration hands on: the one of the first header if its size
\* is not negative, else the one of the second header
Folded(p) == IF p.primary[1] >= 0 THEN p.primary ELSE p.fallback

\* C7, amended: every iteration that does not end the run is folded into the
\* table under architecture-apiLevel, as the outcome of the first header when
\* that was measured and else as the outcome of the second header whatever it
\* is; so a string carries a sentinel exactly when neither header was measured.
C7_EveryOutcomeFolded ==
    /\ \A k \in 1..Len(probeLog) : probeLog[k].primary[1] < 0 => probeLog[k].fallback # <<>>
    /\ {result[i].key : i \in 1..Len(result)} = {LogKey(probeLog[k]) : k \in 1..Len(probeLog)}
    /\ \A i \in 1..Len(result) :
          Range(result[i].entries) =
            {format_value(Folded(p)[1], Folded(p)[2]) :
                p \in {q \in Range(probeLog) : LogKey(q) = result[i].key}}
    /\ (\E value \in TableValues : HasSentinel(value))
          <=> (\E p \in Range(probeLog) : p.primary[1] < 0 /\ p.fallback[1] < 0)

\* a finished run in which one version was measured through the second header
\* after the first gave a sentinel, and another was measured through neither
C7_Witness ==
    /\ mainPc = "done"
    /\ \E p \in Range(probeLog) : p.primary[1] < 0 /\ p.fallback # <<>> /\ p.fallback[1] >= 0
    /\ \E p \in Range(probeLog) : p.primary[1] < 0 /\ p.fallback # <<>> /\ p.fallback[1] < 0
    /\ \E value \in TableValues : HasSentinel(value)
    /\ \E value \in TableValues : ~HasSentinel(value)

\* the lines of the report, and the keys it lists, in order
ReportLines == SelectSeq(stdout, LAMBDA l : ~StartsWithAt(l, 1, LitComment))

IsKeyLine(l) == StartsWithAt(l, 1, <<" ", " ", "\"">>)

ReportKeys == [i \in 1..Len(SelectSeq(ReportLines, IsKeyLine)) |->
                SubSeq(SelectSeq(ReportLines, IsKeyLine)[i], 4,
                       Len(SelectSeq(ReportLines, IsKeyLine)[i]) - 4)]

ApiLevels == {e[2] : e \in api_levels}

KeyArch(key) == CHOOSE a \in Archs : \E l \in ApiLevels : key = format_key(a, l)

KeyApiLevel(key) == CHOOSE l \in ApiLevels : \E a \in Archs : key = format_key(a, l)

ArchRanks == {r \in [Archs -> 1..Cardinality(Archs)] : \A a, b \in Archs : a # b => r[a] # r[b]}

\* C8: the keys of the report are sorted by architecture, in whichever fixed
\* order of the architectures, and then by ascending API level.
C8_ReportKeysSorted ==
    mainPc = "done" =>
        \E rank \in ArchRanks :
            \A i, j \in 1..Len(ReportKeys) :
                i < j =>
                    \/ rank[KeyArch(ReportKeys[i])] < rank[KeyArch(ReportKeys[j])]
                    \/ /\ KeyArch(ReportKeys[i]) = KeyArch(ReportKeys[j])
                       /\ KeyApiLevel(ReportKeys[i]) < KeyApiLevel(ReportKeys[j])

====
